---- MODULE Spec2Model ----
(***************************************************************************)
(* A model of create.py: load_comments reads comments.ndjson line by line, *)
(* generate_tweets checks that something was loaded, opens tweets.ndjson   *)
(* for writing, writes num_tweets serialized records and prints a          *)
(* confirmation.  The files, the two file handles, the wall clock, the     *)
(* console and the process exit status are the state.                      *)
(***************************************************************************)
EXTENDS Integers, Sequences, FiniteSets, TLC

VARIABLES
  pc,              \* position of the process in create.py
  inputExists,     \* environment: comments.ndjson can be opened for reading
  outputWritable,  \* environment: tweets.ndjson can be opened for writing
  infile,          \* comments.ndjson: a sequence of lines, each a sequence of tokens
  pos,             \* load_comments: number of lines consumed by "for line in f"
  comments,        \* the list built by load_comments / held by generate_tweets
  inOpen,          \* the handle on comments.ndjson is open
  outOpen,         \* the handle on tweets.ndjson is open
  outfile,         \* tweets.ndjson: [exists, data], data a sequence of chunks
  outfile0,        \* tweets.ndjson as it was when the process started
  num_tweets,      \* the argument of generate_tweets
  written,         \* iterations of "for _ in range(num_tweets)" completed
  clock,           \* the wall clock, [s, us]: seconds and microseconds
  thirty_days_ago, \* the local of that name in the latest iteration
  stdout,          \* what print() has written
  error,           \* the exception that ended the run, "" when none
  exitCode         \* -1 while the process runs, then its exit status

vars == <<pc, inputExists, outputWritable, infile, pos, comments, inOpen, outOpen,
          outfile, outfile0, num_tweets, written, clock, thirty_days_ago, stdout,
          error, exitCode>>

----------------------------------------------------------------------------
(* Bounds of the model.  Loading is followed over input files of up to      *)
(* MaxLines lines, each run then generating at most LoadTweets records;     *)
(* generation is followed over runs of up to MaxTweets records, each from   *)
(* an input file of at most GenerateLines lines.                            *)

MaxLines == 2

LoadTweets == 1

MaxTweets == 2

GenerateLines == 1

----------------------------------------------------------------------------
(* Lines of text.  A line is a sequence of tokens [k, v]: k is the kind of  *)
(* the token and v its text.                                                *)

Tok(k, v) == [k |-> k, v |-> v]

LBRACE == Tok("lbrace", "{")

RBRACE == Tok("rbrace", "}")

COLON == Tok("colon", ":")

SPACE == Tok("ws", " ")

EOL == Tok("ws", "\n")

StrTok(s) == Tok("string", s)

NumTok(d) == Tok("number", d)

WordTok(w) == Tok("word", w)

\* The text of a string that holds the lone surrogate U+D800 (the JSON "\ud800").
LoneSurrogate == "<U+D800>"

\* The lines an input file is made of.
LineTexts ==
  { <<LBRACE, StrTok("comment"), COLON, SPACE, StrTok("hello"), RBRACE, EOL>>,
    <<LBRACE, StrTok("comment"), COLON, SPACE, NumTok("5"), RBRACE, EOL>>,
    <<SPACE, LBRACE, StrTok("text"), COLON, SPACE, StrTok("hi"), RBRACE, EOL>>,
    <<LBRACE, StrTok("comment"), COLON, StrTok(LoneSurrogate), RBRACE, EOL>>,
    <<WordTok("not"), SPACE, WordTok("json"), EOL>>,
    <<EOL>> }

\* str.strip(): leading and trailing whitespace removed.
RECURSIVE LStrip(_)
LStrip(line) ==
  IF line # <<>> /\ Head(line).k = "ws" THEN LStrip(Tail(line)) ELSE line

RECURSIVE RStrip(_)
RStrip(line) ==
  IF line # <<>> /\ line[Len(line)].k = "ws"
  THEN RStrip(SubSeq(line, 1, Len(line) - 1))
  ELSE line

Strip(line) == LStrip(RStrip(line))

----------------------------------------------------------------------------
(* Python values: [t |-> "str", s], [t |-> "int", s] (s the digits),        *)
(* [t |-> "dict", d] (d the function from keys to values).                  *)

PyStr(s) == [t |-> "str", s |-> s]

PyInt(d) == [t |-> "int", s |-> d]

PyDict(f) == [t |-> "dict", d |-> f]

JSONDecodeError == [t |-> "JSONDecodeError"]

\* The JSON whitespace inside a document is skipped by the decoder.
NoSpace(line) == SelectSeq(line, LAMBDA tok : tok.k # "ws")

Scalar(tok) == IF tok.k = "string" THEN PyStr(tok.v) ELSE PyInt(tok.v)

\* json.loads on a stripped line: a scalar, {} or an object of one member;
\* anything else is a JSONDecodeError.
json_loads(text) ==
  LET d == NoSpace(text) IN
  IF Len(d) = 1 /\ d[1].k \in {"string", "number"} THEN Scalar(d[1])
  ELSE IF Len(d) = 2 /\ d[1] = LBRACE /\ d[2] = RBRACE THEN PyDict(<<>>)
  ELSE IF /\ Len(d) = 5
          /\ d[1] = LBRACE /\ d[2].k = "string" /\ d[3] = COLON
          /\ d[4].k \in {"string", "number"} /\ d[5] = RBRACE
       THEN PyDict([key \in {d[2].v} |-> Scalar(d[4])])
  ELSE JSONDecodeError

\* repr() of a scalar.
repr(x) == IF x.t = "str" THEN "'" \o x.s \o "'" ELSE x.s

\* str() of a parsed value.
str(x) ==
  IF x.t = "str" THEN x.s
  ELSE IF x.t = "int" THEN x.s
  ELSE IF DOMAIN x.d = {} THEN "{}"
  ELSE LET key == CHOOSE k \in DOMAIN x.d : TRUE
       IN "{'" \o key \o "': " \o repr(x.d[key]) \o "}"

----------------------------------------------------------------------------
(* datetime and timedelta.  A datetime is [s, us]: whole seconds since the  *)
(* epoch and microseconds of the second, as timedelta normalises them.      *)

SecondsPerDay == 86400

MicrosPerSecond == 1000000

MicrosPerMilli == 1000

WindowDays == 30

Dt(s, us) == [s |-> s, us |-> us]

\* dt - timedelta(days=n)
SubDays(dt, n) == Dt(dt.s - n * SecondsPerDay, dt.us)

\* dt + timedelta(seconds=n)
AddSeconds(dt, n) == Dt(dt.s + n, dt.us)

\* dt + d for a non-negative timedelta d = [s, us], carrying into the seconds.
AddDelta(dt, d) ==
  LET us == dt.us + d.us
  IN Dt(dt.s + d.s + us \div MicrosPerSecond, us % MicrosPerSecond)

\* The difference in seconds rounded up instead of truncated.
TotalSecondsRoundedUp(a, b) == a.s - b.s + 1

\* int((a - b).total_seconds()): the difference in seconds, truncated
\* towards zero.
TotalSecondsInt(a, b) ==
  LET ds == a.s - b.s
      dus == a.us - b.us
  IN IF ds > 0 \/ (ds = 0 /\ dus >= 0)
     THEN ds - (IF dus < 0 THEN 1 ELSE 0)
     ELSE ds + (IF dus > 0 THEN 1 ELSE 0)

\* int(dt.timestamp() * 1000): milliseconds since the epoch, the fraction of
\* a millisecond dropped.  The value is s * 1000 + ms, kept as [s, ms].
ToMillis(dt) == [s |-> dt.s, ms |-> dt.us \div MicrosPerMilli]

\* How far the wall clock moves between two readings of datetime.now().
ClockAdvances == { Dt(0, 0), Dt(1, 700) }

----------------------------------------------------------------------------
(* The random facilities.                                                   *)

\* A range that runs one past its upper end.
randintPastEnd(a, b) == {a, b + 1}

\* random.randint(a, b) returns an integer of a..b; the draws of the model
\* are the two ends of the range.
randint(a, b) == {a, b}

\* An element converted to text on the way out instead of copied.
choiceConverted(seq) == { [t |-> "str", s |-> seq[j].s] : j \in DOMAIN seq }

\* random.choice(seq): any element of the sequence.
choice(seq) == { seq[j] : j \in DOMAIN seq }

\* fake.name()
FakeNames == { "Ada Lovelace" }

\* fake.user_name()
FakeUserNames == { "ada" }

\* nanoid(size=10)
NanoIds == { "V1StGXR8_Z" }

REACTION_EMOJIS ==
  << "thumbs_up", "heart", "joy", "open_mouth", "cry",
     "rage", "fire", "rocket", "clap", "tada" >>

\* {emoji: random.randint(0, 20) for emoji in REACTION_EMOJIS}: the draws of
\* the model give one count to the emoji at odd places and another to the
\* emoji at even places.
ReactionDraws ==
  { [e \in { REACTION_EMOJIS[j] : j \in DOMAIN REACTION_EMOJIS } |->
       IF \E j \in DOMAIN REACTION_EMOJIS : REACTION_EMOJIS[j] = e /\ j % 2 = 1
       THEN p[1] ELSE p[2]] :
      p \in { q \in randint(0, 20) \X randint(0, 20) : q[1] # q[2] } }

----------------------------------------------------------------------------
(* Files.  The data of tweets.ndjson is a sequence of chunks: the text of   *)
(* one serialized object, a newline, or text of an earlier run.             *)

NEWLINE == [c |-> "nl"]

OldText == [c |-> "old"]

\* json.dumps(tweet, ensure_ascii=False): one chunk of text without newline.
json_dumps(tweet) == <<[c |-> "json", obj |-> tweet]>>

\* The UTF-8 codec refuses a lone surrogate, which ensure_ascii=False leaves
\* in the text.
Utf8Encodable(tweet) ==
  ~(tweet.content.t = "str" /\ tweet.content.s = LoneSurrogate)

Absent == [exists |-> FALSE, data |-> <<>>]

\* The input files of at most n lines.
InputFiles(n) == UNION { [1..k -> LineTexts] : k \in 0..n }

Unbound == Dt(0, 0)

\* The process starts: generate_tweets is called with a count of at most
\* maxTweets, the input file has at most maxLines lines.
Init(maxLines, maxTweets) ==
  /\ pc = "start"
  /\ inputExists \in BOOLEAN
  /\ outputWritable \in BOOLEAN
  /\ infile \in (IF inputExists THEN InputFiles(maxLines) ELSE {<<>>})
  /\ pos = 0
  /\ comments = <<>>
  /\ inOpen = FALSE
  /\ outOpen = FALSE
  /\ outfile0 \in {Absent, [exists |-> TRUE, data |-> <<OldText, NEWLINE>>]}
  /\ outfile = outfile0
  /\ num_tweets \in (0 - 1)..maxTweets
  /\ written = 0
  /\ clock = Dt(1793682000, 999500)
  /\ thirty_days_ago = Unbound
  /\ stdout = <<>>
  /\ error = ""
  /\ exitCode = 0 - 1

\* An exception that is swallowed: the process ends with status 0.
RaiseSwallowed(e) ==
  /\ pc' = "failed"
  /\ error' = e
  /\ exitCode' = 0

\* An exception nobody catches ends the process with status 1.
Raise(e) ==
  /\ pc' = "failed"
  /\ error' = e
  /\ exitCode' = 1

----------------------------------------------------------------------------
(* load_comments                                                            *)

\* with open(filepath, "r", encoding="utf-8") as f:
OpenInput ==
  /\ pc = "start"
  /\ IF inputExists
     THEN /\ inOpen' = TRUE
          /\ pc' = "reading"
          /\ UNCHANGED <<error, exitCode>>
     ELSE /\ Raise("FileNotFoundError")
          /\ UNCHANGED inOpen
  /\ UNCHANGED <<inputExists, outputWritable, infile, pos, comments, outOpen,
                 outfile, outfile0, num_tweets, written, clock, thirty_days_ago,
                 stdout>>

\* The fallback taken for every parsed value, the 'comment' key ignored.
ExtractWhole(data) == PyStr(str(data))

\* The fallback without str(): the parsed value itself.
ExtractRaw(data) ==
  IF data.t = "dict" /\ "comment" \in DOMAIN data.d
  THEN data.d["comment"]
  ELSE data

\* One element of comments for a parsed value.
Extract(data) ==
  IF data.t = "dict" /\ "comment" \in DOMAIN data.d
  THEN data.d["comment"]
  ELSE PyStr(str(data))

\* One iteration of "for line in f".
ReadLine ==
  /\ pc = "reading"
  /\ pos < Len(infile)
  /\ LET data == json_loads(Strip(infile[pos + 1]))
     IN comments' = IF data.t = "JSONDecodeError"
                    THEN comments
                    ELSE Append(comments, Extract(data))
  /\ pos' = pos + 1
  /\ UNCHANGED <<pc, inputExists, outputWritable, infile, inOpen, outOpen, outfile,
                 outfile0, num_tweets, written, clock, thirty_days_ago, stdout,
                 error, exitCode>>

\* The end of the file reached without closing it.
CloseInputLeak ==
  /\ pc = "reading"
  /\ pos = Len(infile)
  /\ pc' = "loaded"
  /\ UNCHANGED <<inputExists, outputWritable, infile, pos, comments, inOpen,
                 outOpen, outfile, outfile0, num_tweets, written, clock,
                 thirty_days_ago, stdout, error, exitCode>>

\* The end of the file: the with block closes it and load_comments returns.
CloseInput ==
  /\ pc = "reading"
  /\ pos = Len(infile)
  /\ inOpen' = FALSE
  /\ pc' = "loaded"
  /\ UNCHANGED <<inputExists, outputWritable, infile, pos, comments, outOpen,
                 outfile, outfile0, num_tweets, written, clock, thirty_days_ago,
                 stdout, error, exitCode>>

----------------------------------------------------------------------------
(* generate_tweets                                                          *)

\* The check for an empty list left out.
CheckCommentsSkipped ==
  /\ pc = "loaded"
  /\ pc' = "checked"
  /\ UNCHANGED <<inputExists, outputWritable, infile, pos, comments, inOpen,
                 outOpen, outfile, outfile0, num_tweets, written, clock,
                 thirty_days_ago, stdout, error, exitCode>>

\* if not comments: raise ValueError(...)
CheckComments ==
  /\ pc = "loaded"
  /\ IF comments = <<>>
     THEN Raise("ValueError")
     ELSE /\ pc' = "checked"
          /\ UNCHANGED <<error, exitCode>>
  /\ UNCHANGED <<inputExists, outputWritable, infile, pos, comments, inOpen,
                 outOpen, outfile, outfile0, num_tweets, written, clock,
                 thirty_days_ago, stdout>>

\* The file opened for appending: what it held stays.
OpenOutputAppend ==
  /\ pc = "checked"
  /\ IF outputWritable
     THEN /\ outfile' = [exists |-> TRUE, data |-> outfile.data]
          /\ outOpen' = TRUE
          /\ pc' = "writing"
          /\ UNCHANGED <<error, exitCode>>
     ELSE /\ Raise("PermissionError")
          /\ UNCHANGED <<outfile, outOpen>>
  /\ UNCHANGED <<inputExists, outputWritable, infile, pos, comments, inOpen,
                 outfile0, num_tweets, written, clock, thirty_days_ago, stdout>>

\* with open("tweets.ndjson", "w", encoding="utf-8") as f: the file is
\* created or truncated, or the open fails and leaves it alone.
OpenOutput ==
  /\ pc = "checked"
  /\ IF outputWritable
     THEN /\ outfile' = [exists |-> TRUE, data |-> <<>>]
          /\ outOpen' = TRUE
          /\ pc' = "writing"
          /\ UNCHANGED <<error, exitCode>>
     ELSE /\ Raise("PermissionError")
          /\ UNCHANGED <<outfile, outOpen>>
  /\ UNCHANGED <<inputExists, outputWritable, infile, pos, comments, inOpen,
                 outfile0, num_tweets, written, clock, thirty_days_ago, stdout>>

\* The record of one iteration, the clock read at now1 and again at now2.
Tweet(id, full_name, username, content, now1, now2, offset, reactions) ==
  LET lower == SubDays(now1, WindowDays)
      random_time == AddSeconds(lower, offset)
  IN [id |-> id,
      displayName |-> full_name,
      handle |-> "@" \o username,
      content |-> content,
      timestamp |-> ToMillis(random_time),
      reactions |-> reactions]

\* One iteration of "for _ in range(num_tweets)".  A record the codec refuses
\* raises out of the with block, which closes the file on the way.
WriteTweet ==
  /\ pc = "writing"
  /\ written < num_tweets
  /\ \E id \in NanoIds, full_name \in FakeNames, username \in FakeUserNames,
        content \in choice(comments), d \in ClockAdvances,
        reactions \in ReactionDraws :
       LET now1 == clock
           now2 == AddDelta(now1, d)
           lower == SubDays(now1, WindowDays)
       IN \E offset \in randint(0, TotalSecondsInt(now2, lower)) :
            LET tweet == Tweet(id, full_name, username, content, now1, now2,
                               offset, reactions)
            IN /\ clock' = now2
               /\ thirty_days_ago' = lower
               /\ IF Utf8Encodable(tweet)
                  THEN /\ outfile' = [outfile EXCEPT
                                        !.data = @ \o json_dumps(tweet) \o <<NEWLINE>>]
                       /\ written' = written + 1
                       /\ UNCHANGED <<pc, outOpen, error, exitCode>>
                  ELSE /\ Raise("UnicodeEncodeError")
                       /\ outOpen' = FALSE
                       /\ UNCHANGED <<outfile, written>>
  /\ UNCHANGED <<inputExists, outputWritable, infile, pos, comments, inOpen,
                 outfile0, num_tweets, stdout>>

\* The loop left at any moment, exhausted or not.
CloseOutputEarly ==
  /\ pc = "writing"
  /\ outOpen' = FALSE
  /\ pc' = "closed"
  /\ UNCHANGED <<inputExists, outputWritable, infile, pos, comments, inOpen,
                 outfile, outfile0, num_tweets, written, clock, thirty_days_ago,
                 stdout, error, exitCode>>

\* range(num_tweets) is exhausted: the with block closes the file.
CloseOutput ==
  /\ pc = "writing"
  /\ ~(written < num_tweets)
  /\ outOpen' = FALSE
  /\ pc' = "closed"
  /\ UNCHANGED <<inputExists, outputWritable, infile, pos, comments, inOpen,
                 outfile, outfile0, num_tweets, written, clock, thirty_days_ago,
                 stdout, error, exitCode>>

\* print(f"... Generated {num_tweets} tweets ... into 'tweets.ndjson'"), then
\* generate_tweets returns and the process ends with status 0.
PrintConfirmation ==
  /\ pc = "closed"
  /\ stdout' = Append(stdout, [count |-> num_tweets, path |-> "tweets.ndjson"])
  /\ pc' = "done"
  /\ exitCode' = 0
  /\ UNCHANGED <<inputExists, outputWritable, infile, pos, comments, inOpen,
                 outOpen, outfile, outfile0, num_tweets, written, clock,
                 thirty_days_ago, error>>

Next ==
  \/ OpenInput
  \/ ReadLine
  \/ CloseInput
  \/ CheckComments
  \/ OpenOutput
  \/ WriteTweet
  \/ CloseOutput
  \/ PrintConfirmation

InitLoad == Init(MaxLines, LoadTweets)

InitGenerate == Init(GenerateLines, MaxTweets)

\* Runs over the longer input files.
SpecLoad == InitLoad /\ [][Next]_vars

\* Runs that generate the larger numbers of records.
SpecGenerate == InitGenerate /\ [][Next]_vars

----------------------------------------------------------------------------
(* What the claims speak of.                                                *)

\* The order of datetimes and of timestamps.
DtLeq(a, b) == a.s < b.s \/ (a.s = b.s /\ a.us <= b.us)

MsLeq(a, b) == a.s < b.s \/ (a.s = b.s /\ a.ms <= b.ms)

\* The serialized records in the data of a file, in order.
Records(data) == SelectSeq(data, LAMBDA ch : ch.c = "json")

TweetFields == {"id", "displayName", "handle", "content", "timestamp", "reactions"}

\* The parsed value of line k of the input file.
Parsed(k) == json_loads(Strip(infile[k]))

Parseable(k) == Parsed(k).t # "JSONDecodeError"

HasCommentKey(k) == Parsed(k).t = "dict" /\ "comment" \in DOMAIN Parsed(k).d

\* The elements the claim C4 gives to the first n lines, in line order.
RECURSIVE ElementsUpTo(_)
ElementsUpTo(n) ==
  IF n = 0 THEN <<>>
  ELSE LET v == Parsed(n)
           rest == ElementsUpTo(n - 1)
       IN IF v.t = "JSONDecodeError" THEN rest
          ELSE IF v.t = "dict" /\ "comment" \in DOMAIN v.d
               THEN Append(rest, v.d["comment"])
               ELSE Append(rest, PyStr(str(v)))

\* load_comments is reading, or has just returned.
Loading == pc \in {"reading", "loaded"}

\* load_comments has returned.
Loaded == pc \notin {"start", "reading"} /\ inputExists

\* The latest record written.
LastRecord == outfile.data[Len(outfile.data) - 1].obj

----------------------------------------------------------------------------
\* C1: a completed run of generate_tweets(N), N >= 0, leaves tweets.ndjson
\* holding exactly N lines, each one serialized tweet record followed by a
\* single newline; nothing the file held before the run remains.
C1_ExactlyNLines ==
  (pc = "done" /\ num_tweets >= 0) =>
    /\ outfile.exists
    /\ Len(outfile.data) = 2 * num_tweets
    /\ \A j \in 1..num_tweets :
         /\ outfile.data[2 * j - 1].c = "json"
         /\ DOMAIN outfile.data[2 * j - 1].obj = TweetFields
         /\ outfile.data[2 * j] = NEWLINE

C1_Witness ==
  /\ pc = "done"
  /\ num_tweets = 2
  /\ outfile0.exists
  /\ Len(outfile.data) = 4

\* C2: when load_comments returns an empty sequence, generate_tweets raises
\* the ValueError before any record is generated and before tweets.ndjson is
\* opened: the output file is as it was when the run started.
C2_EmptyInputLeavesOutputAlone ==
  (Loaded /\ pc # "loaded" /\ comments = <<>>) =>
    /\ pc = "failed"
    /\ error = "ValueError"
    /\ outfile = outfile0
    /\ ~outOpen
    /\ written = 0
    /\ stdout = <<>>

C2_Witness ==
  /\ pc = "failed"
  /\ error = "ValueError"
  /\ Len(infile) = 2
  /\ outputWritable
  /\ outfile0.exists
  /\ num_tweets = 1

\* C3: the content of every record written is an element of the sequence
\* load_comments returned, and that sequence does not change once it is
\* loaded.
C3_ContentFromComments ==
  /\ [](\A i \in DOMAIN outfile.data :
          outfile.data[i].c = "json" =>
            \E j \in DOMAIN comments : outfile.data[i].obj.content = comments[j])
  /\ [][Loaded => comments' = comments]_vars

C3_Witness ==
  /\ pc = "done"
  /\ Len(comments) = 2
  /\ comments[1] # comments[2]
  /\ Len(Records(outfile.data)) = 1
  /\ Records(outfile.data)[1].obj.content = comments[2]

C7_Reactions ==
  \A i \in DOMAIN outfile.data :
    outfile.data[i].c = "json" =>
      LET reactions == outfile.data[i].obj.reactions
      IN /\ DOMAIN reactions = { REACTION_EMOJIS[j] : j \in 1..Len(REACTION_EMOJIS) }
         /\ Cardinality(DOMAIN reactions) = 10
         /\ \A e \in DOMAIN reactions : reactions[e] \in 0..20

C7_Witness ==
  /\ Len(Records(outfile.data)) = 2
  /\ Records(outfile.data)[1].obj.reactions["thumbs_up"] = 20
  /\ Records(outfile.data)[1].obj.reactions["heart"] = 0
  /\ Records(outfile.data)[2].obj.reactions["thumbs_up"] = 0

\* C8 as stated: every element load_comments returns is a string, whatever
\* the lines and their 'comment' keys hold.
C8_Original ==
  \A j \in DOMAIN comments : comments[j].t = "str"

\* C8 as amended: every element load_comments returns is a string or is the
\* value of the 'comment' key of a line, returned as it is; so all elements
\* are strings when every 'comment' value of the input is a string.  (The
\* sequence is looked at while load_comments builds it and when it returns.)
C8_StringsOrCommentValues ==
  Loading =>
    /\ \A j \in DOMAIN comments :
         \/ comments[j].t = "str"
         \/ \E k \in 1..pos : HasCommentKey(k) /\ Parsed(k).d["comment"] = comments[j]
    /\ (\A k \in 1..pos : HasCommentKey(k) => Parsed(k).d["comment"].t = "str")
         => \A j \in DOMAIN comments : comments[j].t = "str"

C8_Witness ==
  /\ pc = "loaded"
  /\ Len(comments) = 2
  /\ comments[1].t = "int"
  /\ comments[2] = PyStr("{'text': 'hi'}")

\* C9 as stated: the confirmation is printed only on a successful run, after
\* the records are written and the file is closed, and the count it names
\* is the number of records written, for every integer argument.
C9_Original ==
  stdout # <<>> =>
    /\ pc = "done" /\ error = "" /\ ~outOpen
    /\ stdout[1].count = Len(Records(outfile.data))

\* C9 as amended: the confirmation is printed only on a successful run, after
\* the records are written and the file is closed; the count it names is the
\* argument N, which is the number of records written when N >= 0, while for
\* a negative N no record is written.
C9_Confirmation ==
  stdout # <<>> =>
    /\ pc = "done" /\ error = "" /\ ~outOpen
    /\ Len(stdout) = 1
    /\ stdout[1].count = num_tweets
    /\ stdout[1].path = "tweets.ndjson"
    /\ Len(Records(outfile.data)) = (IF num_tweets >= 0 THEN num_tweets ELSE 0)
    /\ written = Len(Records(outfile.data))

C9_Witness ==
  /\ stdout # <<>>
  /\ stdout[1].count = 2
  /\ Len(Records(outfile.data)) = 2

\* C10: on every exit path of the run no file handle is left open, and the
\* input file is closed before the output file is opened: the two handles
\* are never open together.
C10_HandlesReleased ==
  /\ ~(inOpen /\ outOpen)
  /\ pc \in {"done", "failed"} => (~inOpen /\ ~outOpen)
  /\ pc \in {"checked", "writing", "closed"} => ~inOpen
  /\ inOpen => pc = "reading"
  /\ outOpen => pc = "writing"

C10_Witness ==
  /\ pc = "failed"
  /\ error = "UnicodeEncodeError"
  /\ ~inOpen
  /\ ~outOpen
  /\ outfile0.exists
  /\ outfile = [exists |-> TRUE, data |-> <<>>]

====
